---- MODULE Spec2Model ----
(***************************************************************************)
(* Model of the message-passing Sobel edge detector                        *)
(* (phase2/src/sobel_mbi.c) and of the thresholders of the sequential and  *)
(* task-based programs (src/sequential.c, src/task.c).                     *)
(*                                                                         *)
(* Every rank of the MPI program is a process with a program counter.      *)
(* Buffers are flat byte arrays, indexed from 0 as in C, so that the       *)
(* pointer arithmetic of the source (buffer + k * width) is kept.          *)
(***************************************************************************)
EXTENDS Integers, FiniteSets, Sequences, TLC

VARIABLES
    width, height,   \* image dimensions, as broadcast to every rank
    size,            \* number of ranks (MPI_Comm_size)
    threshold,       \* threshold after the clamp of main
    junk,            \* byte found in memory that malloc returns uninitialised
    full_image,      \* the decoded image at rank 0 (row-major bytes)
    pc,              \* pc[rank]: next step of main
    local_rows,      \* local_rows[rank]
    send_counts,     \* root's Scatterv/Gatherv table, bytes per rank
    displs,          \* root's Scatterv/Gatherv table, byte offsets
    local_with_halo, \* local_with_halo[rank]: (local_rows + 2) * width bytes
    local_out,       \* local_out[rank]: local_rows * width bytes
    reqcnt,          \* reqcnt[rank]: number of requests posted
    recvq,           \* posted receives that have not completed
    sendq,           \* posted sends whose buffer has not been read yet
    net,             \* messages in flight
    full_out,        \* root's gather buffer
    kwrites,         \* kwrites[rank][row]: stencil-kernel writes of an output row
    ireads,          \* ireads[rank]: rows of local_with_halo read by the interior pass
    unready,         \* unready[rank]: halo rows read by the kernel before populated
    populated,       \* populated[rank]: halo rows known to be filled
    bcalls,          \* bcalls[rank]: row offsets of the kernel calls of the boundary pass
    waited,          \* waited[rank]: the counts passed to MPI_Waitall
    rendezvous,      \* whether a send completes only when its receive has matched
    colls,           \* colls[rank]: the collective operations the rank has completed
    tm, tt, tout,    \* thresholder harness: magnitude, threshold, outputs
    tagain,          \* thresholder harness: outputs of a second application
    kimg, kx, kout,  \* kernel harness: 3x3 image, column, outputs
    errs,            \* error messages written to stderr
    exit_code,       \* exit_code[rank]: value returned by main
    progress,        \* progress[rank]: step a rank was at when the group was aborted
    argc,            \* number of command-line arguments, the same at every rank
    dims,            \* dims[rank]: width and height as the rank knows them
    tkind,           \* task harness: "threshold" or "sobel"
    tw, th,          \* task harness: image dimensions
    tthr, tjunk,     \* task harness: threshold, byte found in uninitialised memory
    tcur,            \* task harness: loop variables of the thread that creates tasks
    tpool,           \* task harness: tasks created and not yet run
    tdone,           \* task harness: tasks that have run
    tdst,            \* task harness: the destination image
    tpc,             \* task harness: "create" or "returned"
    bsize,           \* benchmark: number of ranks
    bmin, bmax,      \* benchmark: min_exp and max_exp
    bsync,           \* benchmark: whether MPI_Send returns only when received
    bpc,             \* benchmark: bpc[rank], position of a rank in main
    bchan,           \* benchmark: messages sent and not yet received
    bbar,            \* benchmark: ranks inside MPI_Barrier
    bexit,           \* benchmark: bexit[rank], value returned by main
    bcount           \* benchmark: bcount[rank], sends, receives and barriers completed

vars == <<width, height, size, threshold, junk, full_image, pc, local_rows,
          send_counts, displs, local_with_halo, local_out, reqcnt, recvq,
          sendq, net, full_out, kwrites, ireads, unready, populated, bcalls,
          waited, rendezvous, colls, tm, tt, tout, tagain, kimg, kx, kout, errs, exit_code, progress, argc, dims,
          tkind, tw, th, tthr, tjunk, tcur, tpool, tdone, tdst, tpc,
          bsize, bmin, bmax, bsync, bpc, bchan, bbar, bexit, bcount>>

mpivars == <<width, height, size, threshold, junk, full_image, pc, local_rows,
             send_counts, displs, local_with_halo, local_out, reqcnt, recvq,
             sendq, net, full_out, kwrites, ireads, unready, populated, bcalls,
             waited, rendezvous, colls>>

\* the variables of the round, but for pc and colls
mpivars_but_pc == <<width, height, size, threshold, junk, full_image, local_rows,
                    send_counts, displs, local_with_halo, local_out, reqcnt, recvq,
                    sendq, net, full_out, kwrites, ireads, unready, populated, bcalls,
                    waited, rendezvous>>

thrvars == <<tm, tt, tout, tagain>>

kervars == <<kimg, kx, kout>>

errvars == <<errs, exit_code, progress, argc, dims>>

taskvars == <<tkind, tw, th, tthr, tjunk, tcur, tpool, tdone, tdst, tpc>>

benchvars == <<bsize, bmin, bmax, bsync, bpc, bchan, bbar, bexit, bcount>>

----------------------------------------------------------------------------
(* Bounds of the model *)

MaxHeight == 6
MaxWidth == 2
MaxSize == 3

(* Program constants *)

MPI_PROC_NULL == -1
TagDown == 100
TagUp == 101
MaxByte == 255

Ranks == 0 .. (size - 1)

Empty == [i \in {} |-> 0]

Min(a, b) == IF a < b THEN a ELSE b

----------------------------------------------------------------------------
(* Inputs *)

Flat(w, h, v) == [i \in 0 .. (w * h - 1) |-> v]

Ramp(w, h) == [i \in 0 .. (w * h - 1) |->
                 LET y == i \div w
                     x == i % w
                 IN (2 * y * y + 5 * x + 3) % 256]

\* The runs explored for a width and a height: a flat and a ramp image, each
\* with the threshold given on the command line (after the clamp to 0..255)
\* and the byte that uninitialised heap memory happens to hold.
Inputs(w, h) ==
    IF w % 2 = 1
    THEN { [image |-> Flat(w, h, 10),  threshold |-> 1,   junk |-> 255],
           [image |-> Ramp(w, h),      threshold |-> 1,   junk |-> 0] }
    ELSE { [image |-> Flat(w, h, 255), threshold |-> 100, junk |-> 0],
           [image |-> Ramp(w, h),      threshold |-> 100, junk |-> 255] }

----------------------------------------------------------------------------
(* sqrt and round of <math.h> on the integers the kernel passes *)

\* bisection; the bounds are bound to their values before each step, so that
\* an argument is evaluated once however the step is evaluated
RECURSIVE ISqrtIter(_, _, _)
ISqrtIter(n, lo, hi) ==
    CHOOSE root \in
        {IF l >= h THEN l
         ELSE LET mid == (l + h + 1) \div 2
              IN IF mid * mid <= m THEN ISqrtIter(m, mid, h)
                                   ELSE ISqrtIter(m, l, mid - 1)
           : m \in {n}, l \in {lo}, h \in {hi}} : TRUE

\* floor(sqrt(n)) for 0 <= n < 2^31 (the root is at most 46340)
ISqrt(n) == ISqrtIter(n, 0, Min(n, 46340))

\* round(sqrt(n)): floor(sqrt(n) + 1/2) = floor((sqrt(4n) + 1) / 2)
RoundSqrt(n) == (ISqrt(4 * n) + 1) \div 2

----------------------------------------------------------------------------
(* sobel_on_local_chunk *)

SobelPixel(src, off, w, y, x) ==
    LET xm1 == IF x = 0 THEN 0 ELSE x - 1
        xp1 == IF x = w - 1 THEN w - 1 ELSE x + 1
        p00 == src[off + (y - 1) * w + xm1]
        p01 == src[off + (y - 1) * w + x]
        p02 == src[off + (y - 1) * w + xp1]
        p10 == src[off + y * w + xm1]
        p12 == src[off + y * w + xp1]
        p20 == src[off + (y + 1) * w + xm1]
        p21 == src[off + (y + 1) * w + x]
        p22 == src[off + (y + 1) * w + xp1]
        gx == (0 - p00) + p02 - 2 * p10 + 2 * p12 - p20 + p22
        gy == (0 - p00) - 2 * p01 - p02 + p20 + 2 * p21 + p22
        mag == RoundSqrt(gx * gx + gy * gy)
    IN IF mag > 255 THEN 255 ELSE mag

\* dst after sobel_on_local_chunk(src + soff, dst + doff, w, rows)
sobel_on_local_chunk(src, soff, dst, doff, w, rows) ==
    [i \in DOMAIN dst |->
        IF doff <= i /\ i < doff + rows * w
        THEN LET r == (i - doff) \div w
                 x == (i - doff) % w
             IN SobelPixel(src, soff, w, r + 1, x)
        ELSE dst[i]]

\* rows of src (as row indices from the start of the buffer) that the call reads
ChunkReads(srow, rows) == IF rows <= 0 THEN {} ELSE srow .. (srow + rows + 1)

\* output rows the call writes
ChunkWrites(drow, rows) == IF rows <= 0 THEN {} ELSE drow .. (drow + rows - 1)

CountWrites(kw, rowset) == [k \in DOMAIN kw |-> IF k \in rowset THEN kw[k] + 1 ELSE kw[k]]

----------------------------------------------------------------------------
\* a copy that leaves the destination as it was
memcpy_none(buf, doff, soff, n) == buf

(* memcpy(buf + doff, buf + soff, n) *)
memcpy(buf, doff, soff, n) ==
    [i \in DOMAIN buf |-> IF doff <= i /\ i < doff + n THEN buf[soff + (i - doff)] ELSE buf[i]]

\* buf after n bytes of data were stored at buf + off
Store(buf, off, data, n) ==
    [i \in DOMAIN buf |-> IF off <= i /\ i < off + n THEN data[i - off] ELSE buf[i]]

\* the n bytes at buf + off
Slice(buf, off, n) == [i \in 0 .. (n - 1) |-> buf[off + i]]

----------------------------------------------------------------------------
(* Row partition, lines 123-141 *)

base == height \div size
rem == height % size

\* the remainder test off by one
RowsOf_inclusive(rank) == base + (IF rank <= rem THEN 1 ELSE 0)

RowsOf(rank) == base + (IF rank < rem THEN 1 ELSE 0)

\* offsets that ignore the remainder rows
Offset_noRemainder(r) == r * base * width

RECURSIVE Offset(_)
Offset(r) == IF r = 0 THEN 0 ELSE Offset(r - 1) + RowsOf(r - 1) * width

SendCounts == [r \in Ranks |-> RowsOf(r) * width]
Displs == [r \in Ranks |-> Offset(r)]

above(rank) == IF rank = 0 THEN MPI_PROC_NULL ELSE rank - 1
below(rank) == IF rank = size - 1 THEN MPI_PROC_NULL ELSE rank + 1

----------------------------------------------------------------------------
(* Initial state: dimensions are broadcast and valid (lines 113-121) *)

\* Heights explored with n ranks: every height that gives each rank a row,
\* and the height one row short of that (some rank is left without a row).
Heights(n) == {h \in 1 .. MaxHeight : h >= n - 1}

InitMpi ==
    /\ size \in 1 .. MaxSize
    /\ height \in Heights(size)
    /\ width \in {1, MaxWidth}
    /\ \E inp \in Inputs(width, height) :
          /\ full_image = inp.image
          /\ threshold = inp.threshold
          /\ junk = inp.junk
    /\ pc = [r \in Ranks |-> "partition"]
    /\ local_rows = [r \in Ranks |-> 0]
    /\ send_counts = Empty
    /\ displs = Empty
    /\ local_with_halo = [r \in Ranks |-> Empty]
    /\ local_out = [r \in Ranks |-> Empty]
    /\ reqcnt = [r \in Ranks |-> 0]
    /\ recvq = {}
    /\ sendq = {}
    /\ net = {}
    /\ full_out = Empty
    /\ kwrites = [r \in Ranks |-> Empty]
    /\ ireads = [r \in Ranks |-> {}]
    /\ unready = [r \in Ranks |-> {}]
    /\ populated = [r \in Ranks |-> {}]
    /\ bcalls = [r \in Ranks |-> <<>>]
    /\ waited = [r \in Ranks |-> <<>>]
    /\ rendezvous = FALSE
    /\ colls = [r \in Ranks |-> <<"MPI_Bcast", "MPI_Bcast">>]

IdleThr == tm = 0 /\ tt = 0 /\ tout = Empty /\ tagain = Empty

IdleKer == kimg = Empty /\ kx = 0 /\ kout = Empty

IdleErr ==
    /\ errs = {} /\ exit_code = Empty /\ progress = Empty
    /\ argc = 0 /\ dims = Empty

IdleTask ==
    /\ tkind = "" /\ tw = 0 /\ th = 0 /\ tthr = 0 /\ tjunk = 0 /\ tcur = <<>>
    /\ tpool = {} /\ tdone = {} /\ tdst = Empty /\ tpc = ""

IdleBench ==
    /\ bsize = 0 /\ bmin = 0 /\ bmax = 0 /\ bsync = FALSE /\ bpc = Empty
    /\ bchan = Empty /\ bbar = {} /\ bexit = Empty /\ bcount = Empty

Init == InitMpi /\ IdleThr /\ IdleKer /\ IdleErr /\ IdleTask /\ IdleBench

----------------------------------------------------------------------------
(* main of sobel_mbi.c, one action per step of a rank *)

Zeros(n) == [i \in 0 .. (n - 1) |-> 0]

Uninit(n) == [i \in 0 .. (n - 1) |-> junk]

\* lines 123-151: row count of this rank, root's tables, zeroed local buffer
Partition(rank) ==
    /\ pc[rank] = "partition"
    /\ local_rows' = [local_rows EXCEPT ![rank] = RowsOf(rank)]
    /\ IF rank = 0
       THEN send_counts' = SendCounts /\ displs' = Displs
       ELSE UNCHANGED <<send_counts, displs>>
    /\ local_with_halo' = [local_with_halo EXCEPT ![rank] = Zeros((RowsOf(rank) + 2) * width)]
    /\ pc' = [pc EXCEPT ![rank] = "scatter"]
    /\ UNCHANGED <<colls, rendezvous, waited, bcalls, width, height, size, threshold, junk, full_image, local_out,
                   reqcnt, recvq, sendq, net, full_out, kwrites, ireads, unready,
                   populated>>

\* lines 153-169: MPI_Scatterv into local_with_halo + width, malloc of local_out
Scatter(rank) ==
    /\ pc[rank] = "scatter"
    /\ rank # 0 => Len(colls[0]) >= 3
    /\ colls' = [colls EXCEPT ![rank] = Append(@, "MPI_Scatterv")]
    /\ local_with_halo' = [local_with_halo EXCEPT ![rank] =
           Store(@, width, Slice(full_image, displs[rank], send_counts[rank]),
                 send_counts[rank])]
    /\ local_out' = [local_out EXCEPT ![rank] = Uninit(local_rows[rank] * width)]
    /\ kwrites' = [kwrites EXCEPT ![rank] = [k \in 0 .. (local_rows[rank] - 1) |-> 0]]
    /\ pc' = [pc EXCEPT ![rank] = "post"]
    /\ UNCHANGED <<rendezvous, waited, bcalls, width, height, size, threshold, junk, full_image, local_rows,
                   send_counts, displs, reqcnt, recvq, sendq, net, full_out,
                   ireads, unready, populated>>

\* a receive of the top halo posted into the first real row
PostTop_intoFirstRow(rank) ==
    /\ pc[rank] = "post"
    /\ IF above(rank) # MPI_PROC_NULL
       THEN /\ recvq' = recvq \cup {[src |-> above(rank), dst |-> rank,
                                     tag |-> TagDown, off |-> 1 * width]}
            /\ reqcnt' = [reqcnt EXCEPT ![rank] = @ + 1]
            /\ UNCHANGED <<local_with_halo, populated>>
       ELSE /\ local_with_halo' = [local_with_halo EXCEPT ![rank] =
                   memcpy(@, 0 * width, 1 * width, width)]
            /\ populated' = [populated EXCEPT ![rank] = @ \cup {0}]
            /\ UNCHANGED <<recvq, reqcnt>>
    /\ pc' = [pc EXCEPT ![rank] = "post2"]
    /\ UNCHANGED <<colls, rendezvous, waited, bcalls, width, height, size, threshold, junk, full_image, local_rows,
                   send_counts, displs, local_out, sendq, net, full_out, kwrites,
                   ireads, unready>>

\* a receive of the top halo whose request is not counted
PostTop_uncounted(rank) ==
    /\ pc[rank] = "post"
    /\ IF above(rank) # MPI_PROC_NULL
       THEN /\ recvq' = recvq \cup {[src |-> above(rank), dst |-> rank,
                                     tag |-> TagDown, off |-> 0 * width]}
            /\ UNCHANGED reqcnt
            /\ UNCHANGED <<local_with_halo, populated>>
       ELSE /\ local_with_halo' = [local_with_halo EXCEPT ![rank] =
                   memcpy(@, 0 * width, 1 * width, width)]
            /\ populated' = [populated EXCEPT ![rank] = @ \cup {0}]
            /\ UNCHANGED <<recvq, reqcnt>>
    /\ pc' = [pc EXCEPT ![rank] = "post2"]
    /\ UNCHANGED <<colls, rendezvous, waited, bcalls, width, height, size, threshold, junk, full_image, local_rows,
                   send_counts, displs, local_out, sendq, net, full_out, kwrites,
                   ireads, unready>>

\* lines 171-184: receive of the top halo, or clamp at the top of the image
PostTop(rank) ==
    /\ pc[rank] = "post"
    /\ IF above(rank) # MPI_PROC_NULL
       THEN /\ recvq' = recvq \cup {[src |-> above(rank), dst |-> rank,
                                     tag |-> TagDown, off |-> 0 * width]}
            /\ reqcnt' = [reqcnt EXCEPT ![rank] = @ + 1]
            /\ UNCHANGED <<local_with_halo, populated>>
       ELSE /\ local_with_halo' = [local_with_halo EXCEPT ![rank] =
                   memcpy(@, 0 * width, 1 * width, width)]
            /\ populated' = [populated EXCEPT ![rank] = @ \cup {0}]
            /\ UNCHANGED <<recvq, reqcnt>>
    /\ pc' = [pc EXCEPT ![rank] = "post2"]
    /\ UNCHANGED <<colls, rendezvous, waited, bcalls, width, height, size, threshold, junk, full_image, local_rows,
                   send_counts, displs, local_out, sendq, net, full_out, kwrites,
                   ireads, unready>>

\* the last real row sent upwards instead of the first
SendUp_lastRow(rank) ==
    IF above(rank) # MPI_PROC_NULL
    THEN {[src |-> rank, dst |-> above(rank), tag |-> TagUp,
           off |-> local_rows[rank] * width]}
    ELSE {}

SendUp(rank) ==
    IF above(rank) # MPI_PROC_NULL
    THEN {[src |-> rank, dst |-> above(rank), tag |-> TagUp, off |-> 1 * width]}
    ELSE {}

\* a send to the rank below that carries the tag of the sends upwards
SendDown_tagUp(rank) ==
    IF below(rank) # MPI_PROC_NULL
    THEN {[src |-> rank, dst |-> below(rank), tag |-> TagUp,
           off |-> local_rows[rank] * width]}
    ELSE {}

SendDown(rank) ==
    IF below(rank) # MPI_PROC_NULL
    THEN {[src |-> rank, dst |-> below(rank), tag |-> TagDown,
           off |-> local_rows[rank] * width]}
    ELSE {}

\* the message the transport carries for a posted send, read from the buffer
Message(q) ==
    [src |-> q.src, dst |-> q.dst, tag |-> q.tag,
     data |-> Slice(local_with_halo[q.src], q.off, width)]

\* lines 185-200: receive of the bottom halo or clamp, then the two sends.
\* The buffer of a send is a real row when the rank has one: nothing writes
\* it between MPI_Isend and MPI_Waitall, so the moment the transport reads it
\* cannot be told and the message is in flight at once.  With local_rows = 0
\* the buffers sent are the halo rows themselves, which a receive of this
\* rank may still fill: such a send stays in sendq until Transmit reads it.
PostRest(rank) ==
    /\ pc[rank] = "post2"
    /\ IF below(rank) # MPI_PROC_NULL
       THEN /\ recvq' = recvq \cup {[src |-> below(rank), dst |-> rank,
                                     tag |-> TagUp,
                                     off |-> (local_rows[rank] + 1) * width]}
            /\ UNCHANGED <<local_with_halo, populated>>
       ELSE /\ local_with_halo' = [local_with_halo EXCEPT ![rank] =
                   memcpy(@, (local_rows[rank] + 1) * width,
                          local_rows[rank] * width, width)]
            /\ populated' = [populated EXCEPT ![rank] = @ \cup {local_rows[rank] + 1}]
            /\ UNCHANGED recvq
    /\ IF local_rows[rank] >= 1
       THEN /\ net' = net \cup {Message(q) : q \in SendUp(rank) \cup SendDown(rank)}
            /\ UNCHANGED sendq
       ELSE /\ sendq' = sendq \cup SendUp(rank) \cup SendDown(rank)
            /\ UNCHANGED net
    /\ reqcnt' = [reqcnt EXCEPT ![rank] =
           @ + (IF below(rank) # MPI_PROC_NULL THEN 1 ELSE 0)
             + Cardinality(SendUp(rank)) + Cardinality(SendDown(rank))]
    /\ pc' = [pc EXCEPT ![rank] = "interior"]
    /\ UNCHANGED <<colls, rendezvous, waited, bcalls, width, height, size, threshold, junk, full_image, local_rows,
                   send_counts, displs, local_out, full_out, kwrites,
                   ireads, unready>>

HaloRows(rank) == {0, local_rows[rank] + 1}

\* an interior pass that runs through the last real row
Interior_throughLastRow(rank) ==
    /\ pc[rank] = "interior"
    /\ IF local_rows[rank] >= 2
       THEN LET interior_start == 1
                interior_end == local_rows[rank] - 1
                interior_count == interior_end - interior_start + 1
                srow == interior_start - 1
                drow == interior_start - 1
            IN /\ local_out' = [local_out EXCEPT ![rank] =
                      sobel_on_local_chunk(local_with_halo[rank], srow * width,
                                           @, drow * width, width, interior_count)]
               /\ kwrites' = [kwrites EXCEPT ![rank] =
                      CountWrites(@, ChunkWrites(drow, interior_count))]
               /\ ireads' = [ireads EXCEPT ![rank] = ChunkReads(srow, interior_count)]
               /\ unready' = [unready EXCEPT ![rank] =
                      @ \cup ((ChunkReads(srow, interior_count) \cap HaloRows(rank))
                                \ populated[rank])]
       ELSE UNCHANGED <<local_out, kwrites, ireads, unready>>
    /\ pc' = [pc EXCEPT ![rank] = "wait"]
    /\ UNCHANGED <<colls, rendezvous, waited, bcalls, width, height, size, threshold, junk, full_image, local_rows,
                   send_counts, displs, local_with_halo, reqcnt, recvq, sendq,
                   net, full_out, populated>>

\* lines 205-219: the interior pass
Interior(rank) ==
    /\ pc[rank] = "interior"
    /\ IF local_rows[rank] >= 3
       THEN LET interior_start == 1
                interior_end == local_rows[rank] - 2
                interior_count == interior_end - interior_start + 1
                srow == interior_start - 1
                drow == interior_start - 1
            IN /\ local_out' = [local_out EXCEPT ![rank] =
                      sobel_on_local_chunk(local_with_halo[rank], srow * width,
                                           @, drow * width, width, interior_count)]
               /\ kwrites' = [kwrites EXCEPT ![rank] =
                      CountWrites(@, ChunkWrites(drow, interior_count))]
               /\ ireads' = [ireads EXCEPT ![rank] = ChunkReads(srow, interior_count)]
               /\ unready' = [unready EXCEPT ![rank] =
                      @ \cup ((ChunkReads(srow, interior_count) \cap HaloRows(rank))
                                \ populated[rank])]
       ELSE UNCHANGED <<local_out, kwrites, ireads, unready>>
    /\ pc' = [pc EXCEPT ![rank] = "wait"]
    /\ UNCHANGED <<colls, rendezvous, waited, bcalls, width, height, size, threshold, junk, full_image, local_rows,
                   send_counts, displs, local_with_halo, reqcnt, recvq, sendq,
                   net, full_out, populated>>

\* the transport reads the buffer of a posted send that is still queued
Transmit(q) ==
    /\ q \in sendq
    /\ sendq' = sendq \ {q}
    /\ net' = net \cup {Message(q)}
    /\ UNCHANGED <<colls, rendezvous, waited, bcalls, width, height, size, threshold, junk, full_image, pc,
                   local_rows, send_counts, displs, local_with_halo, local_out,
                   reqcnt, recvq, full_out, kwrites, ireads, unready, populated>>

\* the transport completes a posted receive with the message that matches it
Deliver(m, q) ==
    /\ m \in net
    /\ q \in recvq
    /\ m.src = q.src /\ m.dst = q.dst /\ m.tag = q.tag
    /\ net' = net \ {m}
    /\ recvq' = recvq \ {q}
    /\ local_with_halo' = [local_with_halo EXCEPT ![q.dst] = Store(@, q.off, m.data, width)]
    /\ UNCHANGED <<colls, rendezvous, waited, bcalls, width, height, size, threshold, junk, full_image, pc,
                   local_rows, send_counts, displs, local_out, reqcnt, sendq,
                   full_out, kwrites, ireads, unready, populated>>

\* a request of the rank that MPI_Waitall would still wait for: a receive not
\* yet matched, a send whose buffer has not been read, or, when sends are
\* not buffered, a send whose message has not been received
Pending(rank) ==
    \/ \E q \in recvq : q.dst = rank
    \/ \E q \in sendq : q.src = rank
    \/ rendezvous /\ \E m \in net : m.src = rank

\* lines 223-226: MPI_Waitall on the posted requests
Waitall(rank) ==
    /\ pc[rank] = "wait"
    /\ reqcnt[rank] > 0 => ~Pending(rank)
    /\ waited' = [waited EXCEPT ![rank] =
           IF reqcnt[rank] > 0 THEN Append(@, reqcnt[rank]) ELSE @]
    /\ populated' = [populated EXCEPT ![rank] = HaloRows(rank)]
    /\ pc' = [pc EXCEPT ![rank] = "boundary"]
    /\ UNCHANGED <<colls, rendezvous, bcalls, width, height, size, threshold, junk, full_image, local_rows,
                   send_counts, displs, local_with_halo, local_out, reqcnt,
                   recvq, sendq, net, full_out, kwrites, ireads, unready>>

\* a boundary pass whose second call does not test for a second row
BoundaryCalls_twice(rows) ==
    IF rows >= 1
    THEN <<0>> \o <<rows - 1>>
    ELSE <<>>

\* lines 233-238: the kernel calls of the boundary pass, each on one row;
\* a call at offset k reads rows k .. k + 2 of local_with_halo and writes
\* row k of local_out
BoundaryCalls(rows) ==
    IF rows >= 1
    THEN <<0>> \o (IF rows > 1 THEN <<rows - 1>> ELSE <<>>)
    ELSE <<>>

RECURSIVE RunCalls(_, _, _, _)
RunCalls(calls, src, dst, w) ==
    IF calls = <<>> THEN dst
    ELSE RunCalls(Tail(calls), src,
                  sobel_on_local_chunk(src, Head(calls) * w, dst, Head(calls) * w, w, 1), w)

RECURSIVE CountCalls(_, _)
CountCalls(kw, calls) ==
    IF calls = <<>> THEN kw
    ELSE CountCalls(CountWrites(kw, ChunkWrites(Head(calls), 1)), Tail(calls))

CallReads(calls) == UNION {ChunkReads(calls[i], 1) : i \in DOMAIN calls}

\* lines 230-239: the boundary pass
Boundary(rank) ==
    /\ pc[rank] = "boundary"
    /\ LET calls == BoundaryCalls(local_rows[rank])
       IN /\ local_out' = [local_out EXCEPT ![rank] =
                 RunCalls(calls, local_with_halo[rank], @, width)]
          /\ kwrites' = [kwrites EXCEPT ![rank] = CountCalls(@, calls)]
          /\ unready' = [unready EXCEPT ![rank] =
                 @ \cup ((CallReads(calls) \cap HaloRows(rank)) \ populated[rank])]
          /\ bcalls' = [bcalls EXCEPT ![rank] = calls]
    /\ pc' = [pc EXCEPT ![rank] = "threshold"]
    /\ UNCHANGED <<colls, rendezvous, waited, width, height, size, threshold, junk, full_image,
                   local_rows, send_counts, displs, local_with_halo, reqcnt, recvq,
                   sendq, net, full_out, ireads, populated>>

\* a strict comparison with the threshold
ThresholdLoop_strict(buf, n, thr) ==
    [i \in DOMAIN buf |-> IF i < n THEN (IF buf[i] > thr THEN 255 ELSE 0) ELSE buf[i]]

\* lines 243-246: the thresholding loop over n bytes of buf
ThresholdLoop(buf, n, thr) ==
    [i \in DOMAIN buf |-> IF i < n THEN (IF buf[i] >= thr THEN 255 ELSE 0) ELSE buf[i]]

Threshold(rank) ==
    /\ pc[rank] = "threshold"
    /\ local_out' = [local_out EXCEPT ![rank] =
           ThresholdLoop(@, local_rows[rank] * width, threshold)]
    /\ pc' = [pc EXCEPT ![rank] = "gather"]
    /\ UNCHANGED <<colls, rendezvous, waited, bcalls, width, height, size, threshold, junk, full_image, local_rows,
                   send_counts, displs, local_with_halo, reqcnt, recvq, sendq,
                   net, full_out, kwrites, ireads, unready, populated>>

RECURSIVE Gathered(_, _)
\* what MPI_Gatherv leaves in the root's buffer: rank r's block at displs[r]
Gathered(buf, r) ==
    IF r < 0 THEN buf
    ELSE Store(Gathered(buf, r - 1), displs[r], local_out[r], send_counts[r])

\* lines 248-257: MPI_Gatherv; the root returns when every block has arrived
Gather(rank) ==
    /\ pc[rank] = "gather"
    /\ IF rank = 0
       THEN /\ \A r \in Ranks \ {0} : Len(colls[r]) >= 4
            /\ full_out' = Gathered(Uninit(width * height), size - 1)
       ELSE UNCHANGED full_out
    /\ colls' = [colls EXCEPT ![rank] = Append(@, "MPI_Gatherv")]
    /\ pc' = [pc EXCEPT ![rank] = "done"]
    /\ UNCHANGED <<rendezvous, waited, bcalls, width, height, size, threshold, junk, full_image, local_rows,
                   send_counts, displs, local_with_halo, local_out, reqcnt,
                   recvq, sendq, net, kwrites, ireads, unready, populated>>

NextMpi ==
    \/ \E rank \in Ranks : Partition(rank)
    \/ \E rank \in Ranks : Scatter(rank)
    \/ \E rank \in Ranks : PostTop(rank)
    \/ \E rank \in Ranks : PostRest(rank)
    \/ \E rank \in Ranks : Interior(rank)
    \/ \E q \in sendq : Transmit(q)
    \/ \E m \in net : \E q \in recvq : Deliver(m, q)
    \/ \E rank \in Ranks : Waitall(rank)
    \/ \E rank \in Ranks : Boundary(rank)
    \/ \E rank \in Ranks : Threshold(rank)
    \/ \E rank \in Ranks : Gather(rank)

Next == NextMpi /\ UNCHANGED <<thrvars, kervars, errvars, taskvars, benchvars>>

Spec == Init /\ [][Next]_vars

----------------------------------------------------------------------------
(* The round under fair scheduling, with buffered and with unbuffered sends *)

InitLive ==
    /\ IdleThr /\ IdleKer /\ IdleErr /\ IdleTask /\ IdleBench
    /\ size \in 1 .. MaxSize
    /\ height = size + 2
    /\ width = 1
    /\ full_image = Ramp(width, height)
    /\ threshold = 100
    /\ junk = 0
    /\ pc = [r \in Ranks |-> "partition"]
    /\ local_rows = [r \in Ranks |-> 0]
    /\ send_counts = Empty
    /\ displs = Empty
    /\ local_with_halo = [r \in Ranks |-> Empty]
    /\ local_out = [r \in Ranks |-> Empty]
    /\ reqcnt = [r \in Ranks |-> 0]
    /\ recvq = {}
    /\ sendq = {}
    /\ net = {}
    /\ full_out = Empty
    /\ kwrites = [r \in Ranks |-> Empty]
    /\ ireads = [r \in Ranks |-> {}]
    /\ unready = [r \in Ranks |-> {}]
    /\ populated = [r \in Ranks |-> {}]
    /\ bcalls = [r \in Ranks |-> <<>>]
    /\ waited = [r \in Ranks |-> <<>>]
    /\ rendezvous \in BOOLEAN
    /\ colls = [r \in Ranks |-> <<"MPI_Bcast", "MPI_Bcast">>]

\* the steps of one rank
RankStep(rank) ==
    /\ rank \in Ranks
    /\ \/ Partition(rank) \/ Scatter(rank) \/ PostTop(rank) \/ PostRest(rank)
       \/ Interior(rank) \/ Waitall(rank) \/ Boundary(rank) \/ Threshold(rank)
       \/ Gather(rank)
    /\ UNCHANGED <<thrvars, kervars, errvars, taskvars, benchvars>>

\* the steps of the transport
Transport ==
    /\ \/ \E q \in sendq : Transmit(q)
       \/ \E m \in net : \E q \in recvq : Deliver(m, q)
    /\ UNCHANGED <<thrvars, kervars, errvars, taskvars, benchvars>>

\* every rank keeps running, at any speed, and the transport is reliable
Fairness ==
    /\ \A rank \in 0 .. (MaxSize - 1) : WF_vars(RankStep(rank))
    /\ WF_vars(Transport)

SpecLive == InitLive /\ [][Next]_vars /\ Fairness

----------------------------------------------------------------------------
(* The thresholders of the three programs, applied to one magnitude *)

\* an edge marked with 1 instead of 255
threshold_image_one(src, dst, n, thr) ==
    [i \in DOMAIN dst |-> IF i < n THEN (IF src[i] >= thr THEN 1 ELSE 0) ELSE dst[i]]

\* sequential.c, threshold_image: n = width * height elements of src into dst
threshold_image(src, dst, n, thr) ==
    [i \in DOMAIN dst |-> IF i < n THEN (IF src[i] >= thr THEN 255 ELSE 0) ELSE dst[i]]

\* task.c, threshold_image: one task per chunk of chunk_size elements
chunk_size == 10000

\* a chunk that stops one short of the next chunk
ChunkEnd_short(start, n) == IF start + chunk_size < n THEN start + chunk_size - 1 ELSE n

ChunkEnd(start, n) == IF start + chunk_size < n THEN start + chunk_size ELSE n

threshold_chunk(src, dst, start, end, thr) ==
    [i \in DOMAIN dst |->
        IF start <= i /\ i < end THEN (IF src[i] >= thr THEN 255 ELSE 0) ELSE dst[i]]

RECURSIVE threshold_tasks(_, _, _, _, _)
threshold_tasks(src, dst, start, n, thr) ==
    IF start < n
    THEN threshold_tasks(src, threshold_chunk(src, dst, start, ChunkEnd(start, n), thr),
                         start + chunk_size, n, thr)
    ELSE dst

IdleMpi ==
    /\ width = 0 /\ height = 0 /\ size = 0 /\ threshold = 0 /\ junk = 0
    /\ full_image = Empty /\ pc = Empty /\ local_rows = Empty
    /\ send_counts = Empty /\ displs = Empty
    /\ local_with_halo = Empty /\ local_out = Empty /\ reqcnt = Empty
    /\ recvq = {} /\ sendq = {} /\ net = {} /\ full_out = Empty
    /\ kwrites = Empty /\ ireads = Empty /\ unready = Empty /\ populated = Empty
    /\ bcalls = Empty /\ waited = Empty /\ rendezvous = FALSE /\ colls = Empty

InitThr ==
    /\ IdleMpi /\ IdleKer /\ IdleErr /\ IdleTask /\ IdleBench
    /\ tm \in 0 .. MaxByte
    /\ tt \in 0 .. MaxByte
    /\ tout = Empty
    /\ tagain = Empty

\* a one-element magnitude buffer, and the output buffer the thresholder fills
MagBuf == [i \in {0} |-> tm]
OutBuf == [i \in {0} |-> 0]

ThrMpi ==
    /\ tout = Empty
    /\ tout' = [impl \in {"mpi"} |-> ThresholdLoop(MagBuf, 1, tt)]
    /\ UNCHANGED <<tm, tt, tagain>>

ThrSeq ==
    /\ tout = Empty
    /\ tout' = [impl \in {"sequential"} |-> threshold_image(MagBuf, OutBuf, 1, tt)]
    /\ UNCHANGED <<tm, tt, tagain>>

ThrTask ==
    /\ tout = Empty
    /\ tout' = [impl \in {"task"} |-> threshold_tasks(MagBuf, OutBuf, 0, 1, tt)]
    /\ UNCHANGED <<tm, tt, tagain>>

\* the thresholder applied once more, to its own output
ThrMpiAgain ==
    /\ DOMAIN tout = {"mpi"} /\ tagain = Empty
    /\ tagain' = [impl \in {"mpi"} |-> ThresholdLoop(tout["mpi"], 1, tt)]
    /\ UNCHANGED <<tm, tt, tout>>

ThrSeqAgain ==
    /\ DOMAIN tout = {"sequential"} /\ tagain = Empty
    /\ tagain' = [impl \in {"sequential"} |->
                     threshold_image(tout["sequential"], OutBuf, 1, tt)]
    /\ UNCHANGED <<tm, tt, tout>>

ThrTaskAgain ==
    /\ DOMAIN tout = {"task"} /\ tagain = Empty
    /\ tagain' = [impl \in {"task"} |-> threshold_tasks(tout["task"], OutBuf, 0, 1, tt)]
    /\ UNCHANGED <<tm, tt, tout>>

NextThr ==
    /\ \/ ThrMpi \/ ThrSeq \/ ThrTask
       \/ ThrMpiAgain \/ ThrSeqAgain \/ ThrTaskAgain
    /\ UNCHANGED <<mpivars, kervars, errvars, taskvars, benchvars>>

SpecThr == InitThr /\ [][NextThr]_vars

----------------------------------------------------------------------------
(* The stencil kernels of the three programs, applied to one neighborhood *)

\* sequential.c and task.c, get_pixel: coordinates clamped to the image
get_pixel(img, w, h, x, y) ==
    LET cx == IF x < 0 THEN 0 ELSE IF x >= w THEN w - 1 ELSE x
        cy == IF y < 0 THEN 0 ELSE IF y >= h THEN h - 1 ELSE y
    IN img[cy * w + cx]

\* sequential.c, sobel_magnitude: the body of the loops for pixel (x, y)
sobel_magnitude(img, w, h, x, y) ==
    LET gx == ((0 - 1) * get_pixel(img, w, h, x - 1, y - 1) + 1 * get_pixel(img, w, h, x + 1, y - 1))
              + ((0 - 2) * get_pixel(img, w, h, x - 1, y) + 2 * get_pixel(img, w, h, x + 1, y))
              + ((0 - 1) * get_pixel(img, w, h, x - 1, y + 1) + 1 * get_pixel(img, w, h, x + 1, y + 1))
        gy == ((0 - 1) * get_pixel(img, w, h, x - 1, y - 1) + (0 - 2) * get_pixel(img, w, h, x, y - 1)
                 + (0 - 1) * get_pixel(img, w, h, x + 1, y - 1))
              + (1 * get_pixel(img, w, h, x - 1, y + 1) + 2 * get_pixel(img, w, h, x, y + 1)
                 + 1 * get_pixel(img, w, h, x + 1, y + 1))
        mag == ISqrt(gx * gx + gy * gy)
    IN IF mag > 255 THEN 255 ELSE IF mag < 0 THEN 0 ELSE mag

\* task.c, sobel_tile: the body of the loops for pixel (x, y) of a tile
sobel_tile(img, w, h, x, y) ==
    LET gx == ((0 - 1) * get_pixel(img, w, h, x - 1, y - 1) + 1 * get_pixel(img, w, h, x + 1, y - 1))
              + ((0 - 2) * get_pixel(img, w, h, x - 1, y) + 2 * get_pixel(img, w, h, x + 1, y))
              + ((0 - 1) * get_pixel(img, w, h, x - 1, y + 1) + 1 * get_pixel(img, w, h, x + 1, y + 1))
        gy == ((0 - 1) * get_pixel(img, w, h, x - 1, y - 1) + (0 - 2) * get_pixel(img, w, h, x, y - 1)
                 + (0 - 1) * get_pixel(img, w, h, x + 1, y - 1))
              + (1 * get_pixel(img, w, h, x - 1, y + 1) + 2 * get_pixel(img, w, h, x, y + 1)
                 + 1 * get_pixel(img, w, h, x + 1, y + 1))
        mag == ISqrt(gx * gx + gy * gy)
    IN IF mag > 255 THEN 255 ELSE IF mag < 0 THEN 0 ELSE mag

\* pixel values the neighborhoods are built from
PixelVals == {0, 1, 255}

\* the neighborhoods are the 3x3 images; the kernels compute the middle row
KerWidth == 3

InitKer ==
    /\ IdleMpi /\ IdleThr /\ IdleErr /\ IdleTask /\ IdleBench
    /\ kimg \in [0 .. (3 * KerWidth - 1) -> PixelVals]
    /\ kx \in 0 .. (KerWidth - 1)
    /\ kout = Empty

\* the image is the local block of a rank with one real row
KerMpi ==
    /\ kout = Empty
    /\ kout' = [impl \in {"mpi"} |->
                   sobel_on_local_chunk(kimg, 0, Zeros(KerWidth), 0, KerWidth, 1)[kx]]
    /\ UNCHANGED <<kimg, kx>>

KerSeq ==
    /\ kout = Empty
    /\ kout' = [impl \in {"sequential"} |-> sobel_magnitude(kimg, KerWidth, 3, kx, 1)]
    /\ UNCHANGED <<kimg, kx>>

KerTask ==
    /\ kout = Empty
    /\ kout' = [impl \in {"task"} |-> sobel_tile(kimg, KerWidth, 3, kx, 1)]
    /\ UNCHANGED <<kimg, kx>>

NextKer == (KerMpi \/ KerSeq \/ KerTask) /\ UNCHANGED <<mpivars, thrvars, errvars, taskvars, benchvars>>

SpecKer == InitKer /\ [][NextKer]_vars

----------------------------------------------------------------------------
(* The task-parallel passes of task.c: one thread creates the tasks, any
   thread of the team runs them, in any order, and the creator waits for all
   of them at the taskwait *)

TILE_SIZE == 64

\* images whose pixel counts lie around the multiples of chunk_size
ThresholdDims ==
    {<<n, 1>> : n \in {1, chunk_size - 1, chunk_size, chunk_size + 1,
                      2 * chunk_size, 2 * chunk_size + 1}}

\* images whose sides lie around TILE_SIZE
TileDims == {<<w, h>> : w \in {1, TILE_SIZE, TILE_SIZE + 1}, h \in {1, TILE_SIZE, TILE_SIZE + 1}}

\* the image the pass reads
TaskInput == Ramp(tw, th)

InitTask ==
    /\ IdleMpi /\ IdleThr /\ IdleKer /\ IdleErr /\ IdleBench
    /\ tkind \in {"threshold", "sobel"}
    /\ \E d \in (IF tkind = "threshold" THEN ThresholdDims ELSE TileDims) :
          tw = d[1] /\ th = d[2]
    /\ tthr = 100
    /\ tjunk \in {0, MaxByte}
    /\ tcur = (IF tkind = "threshold" THEN <<0>> ELSE <<0, 0>>)
    /\ tpool = {}
    /\ tdone = {}
    /\ tdst = [i \in 0 .. (tw * th - 1) |-> tjunk]
    /\ tpc = "create"

\* task.c, threshold_image, lines 182-194: one iteration of the loop over start
CreateChunk ==
    /\ tkind = "threshold" /\ tpc = "create"
    /\ tcur[1] < tw * th
    /\ tpool' = tpool \cup {[start |-> tcur[1], end |-> ChunkEnd(tcur[1], tw * th)]}
    /\ tcur' = <<tcur[1] + chunk_size>>
    /\ UNCHANGED <<tkind, tw, th, tthr, tjunk, tdone, tdst, tpc>>

\* task.c, threshold_image, lines 186-192: the body of one task
RunChunk(t) ==
    /\ tkind = "threshold"
    /\ t \in tpool
    /\ tdst' = threshold_chunk(TaskInput, tdst, t.start, t.end, tthr)
    /\ tpool' = tpool \ {t}
    /\ tdone' = tdone \cup {t}
    /\ UNCHANGED <<tkind, tw, th, tthr, tjunk, tcur, tpc>>

\* a tile that stops one short of the next tile
TileEnd_short(start, limit) ==
    IF start + TILE_SIZE < limit THEN start + TILE_SIZE - 1 ELSE limit

\* task.c, sobel_magnitude, lines 154 and 156: the end of a tile, clipped
TileEnd(start, limit) ==
    IF start + TILE_SIZE < limit THEN start + TILE_SIZE ELSE limit

\* task.c, sobel_magnitude, lines 149-163: one iteration of the loops over
\* tile_y and tile_x
CreateTile ==
    /\ tkind = "sobel" /\ tpc = "create"
    /\ tcur[1] < th
    /\ LET tile_y == tcur[1]
           tile_x == tcur[2]
       IN /\ tpool' = tpool \cup {[start_y |-> tile_y, end_y |-> TileEnd(tile_y, th),
                                   start_x |-> tile_x, end_x |-> TileEnd(tile_x, tw)]}
          /\ tcur' = IF tile_x + TILE_SIZE < tw
                     THEN <<tile_y, tile_x + TILE_SIZE>>
                     ELSE <<tile_y + TILE_SIZE, 0>>
    /\ UNCHANGED <<tkind, tw, th, tthr, tjunk, tdone, tdst, tpc>>

\* task.c, sobel_tile, lines 113-138: the loops over the pixels of a tile
sobel_tile_loops(img, mag, w, h, start_y, end_y, start_x, end_x) ==
    [i \in DOMAIN mag |->
        IF /\ start_y <= i \div w /\ i \div w < end_y
           /\ start_x <= i % w /\ i % w < end_x
        THEN sobel_tile(img, w, h, i % w, i \div w)
        ELSE mag[i]]

\* task.c, sobel_magnitude, lines 158-161: the body of one task
RunTile(t) ==
    /\ tkind = "sobel"
    /\ t \in tpool
    /\ tdst' = sobel_tile_loops(TaskInput, tdst, tw, th, t.start_y, t.end_y,
                                t.start_x, t.end_x)
    /\ tpool' = tpool \ {t}
    /\ tdone' = tdone \cup {t}
    /\ UNCHANGED <<tkind, tw, th, tthr, tjunk, tcur, tpc>>

\* #pragma omp taskwait, after the last iteration of the creating loop
Taskwait ==
    /\ tpc = "create"
    /\ IF tkind = "threshold" THEN tcur[1] >= tw * th ELSE tcur[1] >= th
    /\ tpool = {}
    /\ tpc' = "returned"
    /\ UNCHANGED <<tkind, tw, th, tthr, tjunk, tcur, tpool, tdone, tdst>>

NextTask ==
    /\ \/ CreateChunk
       \/ \E t \in tpool : RunChunk(t)
       \/ CreateTile
       \/ \E t \in tpool : RunTile(t)
       \/ Taskwait
    /\ UNCHANGED <<mpivars, thrvars, kervars, errvars, benchvars>>

SpecTask == InitTask /\ [][NextTask]_vars

----------------------------------------------------------------------------
(* The latency and bandwidth microbenchmark, mpi_latency_bandwidth.c *)

SKIP_SMALL == 100
ITER_SMALL == 1000
SKIP_LARGE == 10
ITER_LARGE == 100

\* line 52: the largest message of the ping-pong phase
PingPongMax == 1024

\* lines 57 and 73: the tags of the two phases
TagPingPong == 1
TagOneWay == 2

\* the exponents the runs are started with: 1 << 10 is the last ping-pong
\* size, 1 << 11 the first one-way size
BenchExps == 10 .. 11

BRanks == 0 .. (bsize - 1)

RECURSIVE Shl(_, _)
\* 1 << e, for 0 <= e <= 30
Shl(n, e) == IF e = 0 THEN n ELSE Shl(2 * n, e - 1)

size_bytes(e) == Shl(1, e)

\* lines 56-63 and 72-79: the warm-up loop and the timed loop of a size run
\* the same calls, so an iteration is counted over both
Iterations(e) ==
    IF size_bytes(e) <= PingPongMax THEN SKIP_SMALL + ITER_SMALL
                                     ELSE SKIP_LARGE + ITER_LARGE

Tag(e) == IF size_bytes(e) <= PingPongMax THEN TagPingPong ELSE TagOneWay

\* a ping-pong in which rank 1 also sends before it receives
Exchange_bothSendFirst(rank, e) ==
    IF size_bytes(e) <= PingPongMax
    THEN <<"MPI_Send", "MPI_Recv">>
    ELSE IF rank = 0 THEN <<"MPI_Send">> ELSE <<"MPI_Recv">>

\* lines 57-58, 61-62, 73-74, 78-79: the calls of one iteration at a rank
Exchange(rank, e) ==
    IF size_bytes(e) <= PingPongMax
    THEN IF rank = 0 THEN <<"MPI_Send", "MPI_Recv">> ELSE <<"MPI_Recv", "MPI_Send">>
    ELSE IF rank = 0 THEN <<"MPI_Send">> ELSE <<"MPI_Recv">>

\* the rank the calls of a rank name as destination and source
Peer(rank) == 1 - rank

InitBench ==
    /\ IdleMpi /\ IdleThr /\ IdleKer /\ IdleErr /\ IdleTask
    /\ bsize \in 1 .. MaxSize
    /\ bmin \in BenchExps
    /\ bmax \in BenchExps
    /\ bsync \in BOOLEAN
    /\ bpc = [r \in BRanks |-> [at |-> "start", e |-> 0, i |-> 0, k |-> 0]]
    /\ bchan = [r \in BRanks |-> <<>>]
    /\ bbar = {}
    /\ bexit = Empty
    /\ bcount = [r \in BRanks |-> [sent |-> 0, recvd |-> 0, barriers |-> 0]]

\* lines 27-31: the test of the group size
CheckSize(rank) ==
    /\ bpc[rank].at = "start"
    /\ IF bsize # 2
       THEN /\ bexit' = (rank :> 1) @@ bexit
            /\ bpc' = [bpc EXCEPT ![rank].at = "exit"]
       ELSE /\ bpc' = [bpc EXCEPT ![rank] = [at |-> "for", e |-> bmin, i |-> 0, k |-> 1]]
            /\ UNCHANGED bexit
    /\ UNCHANGED <<bsize, bmin, bmax, bsync, bchan, bbar, bcount>>

\* lines 47-50 and 96-97: the test of the loop over the exponents, the buffer
\* of the size, and the return after the loop
ForSize(rank) ==
    /\ bpc[rank].at = "for"
    /\ IF bpc[rank].e <= bmax
       THEN /\ bpc' = [bpc EXCEPT ![rank].at = "call"]
            /\ UNCHANGED bexit
       ELSE /\ bexit' = (rank :> 0) @@ bexit
            /\ bpc' = [bpc EXCEPT ![rank].at = "exit"]
    /\ UNCHANGED <<bsize, bmin, bmax, bsync, bchan, bbar, bcount>>

\* the position after a call of the iteration has returned: the next call,
\* the next iteration, or the barrier at the end of the size
Returned(p, rank) ==
    IF p.k < Len(Exchange(rank, p.e)) THEN [p EXCEPT !.at = "call", !.k = p.k + 1]
    ELSE IF p.i + 1 < Iterations(p.e) THEN [p EXCEPT !.at = "call", !.i = p.i + 1, !.k = 1]
    ELSE [p EXCEPT !.at = "barrier", !.i = 0, !.k = 1]

\* MPI_Send: the message is handed to the transport; a buffered send returns
\* at once, an unbuffered one when the message has been received
MPI_Send(rank) ==
    /\ bpc[rank].at = "call"
    /\ Exchange(rank, bpc[rank].e)[bpc[rank].k] = "MPI_Send"
    /\ bchan' = [bchan EXCEPT ![Peer(rank)] =
           Append(@, [tag |-> Tag(bpc[rank].e), count |-> size_bytes(bpc[rank].e)])]
    /\ bcount' = [bcount EXCEPT ![rank].sent = @ + 1]
    /\ bpc' = [bpc EXCEPT ![rank] =
           IF bsync THEN [@ EXCEPT !.at = "sending"] ELSE Returned(@, rank)]
    /\ UNCHANGED <<bsize, bmin, bmax, bsync, bbar, bexit>>

\* an unbuffered MPI_Send returns: its message has been received
SendReturns(rank) ==
    /\ bpc[rank].at = "sending"
    /\ bchan[Peer(rank)] = <<>>
    /\ bpc' = [bpc EXCEPT ![rank] = Returned(@, rank)]
    /\ UNCHANGED <<bsize, bmin, bmax, bsync, bchan, bbar, bexit, bcount>>

\* the positions in a channel of the messages with a tag
Matching(chan, tag) == {j \in DOMAIN chan : chan[j].tag = tag}

Without(chan, j) == SubSeq(chan, 1, j - 1) \o SubSeq(chan, j + 1, Len(chan))

\* MPI_Recv: returns with the earliest message from the peer that carries
\* the tag of the call
MPI_Recv(rank) ==
    /\ bpc[rank].at = "call"
    /\ Exchange(rank, bpc[rank].e)[bpc[rank].k] = "MPI_Recv"
    /\ Matching(bchan[rank], Tag(bpc[rank].e)) # {}
    /\ LET j == CHOOSE j \in Matching(bchan[rank], Tag(bpc[rank].e)) :
                   \A l \in Matching(bchan[rank], Tag(bpc[rank].e)) : j <= l
       IN bchan' = [bchan EXCEPT ![rank] = Without(@, j)]
    /\ bcount' = [bcount EXCEPT ![rank].recvd = @ + 1]
    /\ bpc' = [bpc EXCEPT ![rank] = Returned(@, rank)]
    /\ UNCHANGED <<bsize, bmin, bmax, bsync, bbar, bexit>>

\* line 94: a rank enters MPI_Barrier
EnterBarrier(rank) ==
    /\ bpc[rank].at = "barrier"
    /\ bbar' = bbar \cup {rank}
    /\ bpc' = [bpc EXCEPT ![rank].at = "inbarrier"]
    /\ UNCHANGED <<bsize, bmin, bmax, bsync, bchan, bexit, bcount>>

\* MPI_Barrier returns at every rank once every rank has entered it; the
\* loop goes on with the next exponent
LeaveBarrier ==
    /\ bbar # {} /\ bbar = BRanks
    /\ bbar' = {}
    /\ bpc' = [r \in BRanks |-> [bpc[r] EXCEPT !.at = "for", !.e = @ + 1]]
    /\ bcount' = [r \in BRanks |-> [bcount[r] EXCEPT !.barriers = @ + 1]]
    /\ UNCHANGED <<bsize, bmin, bmax, bsync, bchan, bexit>>

NextBench ==
    /\ \/ \E rank \in BRanks : CheckSize(rank)
       \/ \E rank \in BRanks : ForSize(rank)
       \/ \E rank \in BRanks : MPI_Send(rank)
       \/ \E rank \in BRanks : SendReturns(rank)
       \/ \E rank \in BRanks : MPI_Recv(rank)
       \/ \E rank \in BRanks : EnterBarrier(rank)
       \/ LeaveBarrier
    /\ UNCHANGED <<mpivars, thrvars, kervars, errvars, taskvars>>

\* some rank that can take a step, or a barrier that can return, eventually
\* does: no assumption is made on which, so a rank may run ahead of the
\* other as far as its calls let it
BenchFairness == WF_vars(NextBench)

SpecBench == InitBench /\ [][NextBench]_vars /\ BenchFairness

----------------------------------------------------------------------------
(* main with its failure paths: decode, allocation, and saving the output *)

InitErr ==
    /\ IdleThr /\ IdleKer /\ IdleTask /\ IdleBench
    /\ size \in 1 .. MaxSize
    /\ height \in {size, size + 2}
    /\ width = 1
    /\ \E inp \in Inputs(width, height) :
          /\ full_image = inp.image
          /\ threshold = inp.threshold
          /\ junk = inp.junk
    /\ pc = [r \in Ranks |-> "args"]
    /\ local_rows = [r \in Ranks |-> 0]
    /\ send_counts = Empty
    /\ displs = Empty
    /\ local_with_halo = [r \in Ranks |-> Empty]
    /\ local_out = [r \in Ranks |-> Empty]
    /\ reqcnt = [r \in Ranks |-> 0]
    /\ recvq = {}
    /\ sendq = {}
    /\ net = {}
    /\ full_out = Empty
    /\ kwrites = [r \in Ranks |-> Empty]
    /\ ireads = [r \in Ranks |-> {}]
    /\ unready = [r \in Ranks |-> {}]
    /\ populated = [r \in Ranks |-> {}]
    /\ bcalls = [r \in Ranks |-> <<>>]
    /\ waited = [r \in Ranks |-> <<>>]
    /\ rendezvous = FALSE
    /\ colls = [r \in Ranks |-> <<>>]
    /\ errs = {}
    /\ exit_code = Empty
    /\ progress = Empty
    /\ argc \in {2, 3}
    /\ dims = [r \in Ranks |-> <<0, 0>>]

\* a rank that terminates only itself
MPI_Abort_self(rank, msg) ==
    /\ progress' = pc
    /\ pc' = [pc EXCEPT ![rank] = "aborted"]
    /\ exit_code' = (rank :> 1) @@ exit_code
    /\ errs' = errs \cup {msg}
    /\ UNCHANGED <<argc, dims>>
    /\ UNCHANGED <<recvq, sendq, net>>
    /\ UNCHANGED <<colls, rendezvous, waited, bcalls, width, height, size, threshold, junk, full_image, local_rows,
                   send_counts, displs, local_with_halo, local_out, reqcnt,
                   full_out, kwrites, ireads, unready, populated>>

\* fprintf(stderr, msg); MPI_Abort(MPI_COMM_WORLD, 1): every process of the
\* group is terminated, with its pending transfers
MPI_Abort(rank, msg) ==
    /\ progress' = pc
    /\ pc' = [r \in Ranks |-> "aborted"]
    /\ exit_code' = [r \in Ranks |-> 1]
    /\ errs' = errs \cup {msg}
    /\ UNCHANGED <<argc, dims>>
    /\ recvq' = {} /\ sendq' = {} /\ net' = {}
    /\ UNCHANGED <<colls, rendezvous, waited, bcalls, width, height, size, threshold, junk, full_image, local_rows,
                   send_counts, displs, local_with_halo, local_out, reqcnt,
                   full_out, kwrites, ireads, unready, populated>>

\* lines 84-88: the test of argc; the usage message is printed by the root
Args(rank) ==
    /\ pc[rank] = "args"
    /\ IF argc < 3
       THEN /\ errs' = IF rank = 0 THEN errs \cup {"Usage"} ELSE errs
            /\ exit_code' = (rank :> 1) @@ exit_code
            /\ pc' = [pc EXCEPT ![rank] = "exit"]
       ELSE /\ pc' = [pc EXCEPT ![rank] = IF rank = 0 THEN "load" ELSE "bcast"]
            /\ UNCHANGED <<errs, exit_code>>
    /\ UNCHANGED <<mpivars_but_pc, colls, progress, argc, dims>>

\* lines 103-111: stbi_load at the root: an image, an image without pixels,
\* or NULL on an unreadable file
Load(outcome) ==
    /\ pc[0] = "load"
    /\ IF outcome = "null"
       THEN MPI_Abort(0, "failed to load image")
       ELSE /\ dims' = [dims EXCEPT ![0] =
                   IF outcome = "image" THEN <<width, height>> ELSE <<0, 0>>]
            /\ pc' = [pc EXCEPT ![0] = "bcast"]
            /\ UNCHANGED <<mpivars_but_pc, colls, errs, exit_code, progress, argc>>

\* a broadcast that a rank leaves without the root having entered it
Bcast_unsynchronised(rank) ==
    /\ pc[rank] = "bcast"
    /\ colls' = [colls EXCEPT ![rank] = @ \o <<"MPI_Bcast", "MPI_Bcast">>]
    /\ dims' = [dims EXCEPT ![rank] = dims[0]]
    /\ pc' = [pc EXCEPT ![rank] = "check"]
    /\ UNCHANGED <<mpivars_but_pc, errs, exit_code, progress, argc>>

\* lines 114-115: the two MPI_Bcast of width and height from the root
Bcast(rank) ==
    /\ pc[rank] = "bcast"
    /\ rank # 0 => Len(colls[0]) >= 2
    /\ colls' = [colls EXCEPT ![rank] = @ \o <<"MPI_Bcast", "MPI_Bcast">>]
    /\ dims' = [dims EXCEPT ![rank] = dims[0]]
    /\ pc' = [pc EXCEPT ![rank] = "check"]
    /\ UNCHANGED <<mpivars_but_pc, errs, exit_code, progress, argc>>

\* a test of the dimensions that only the root makes
CheckDims_rootOnly(rank) ==
    /\ pc[rank] = "check"
    /\ IF rank = 0 /\ (dims[rank][1] <= 0 \/ dims[rank][2] <= 0)
       THEN /\ errs' = IF rank = 0 THEN errs \cup {"Invalid image dimensions"} ELSE errs
            /\ exit_code' = (rank :> 1) @@ exit_code
            /\ pc' = [pc EXCEPT ![rank] = "exit"]
       ELSE /\ pc' = [pc EXCEPT ![rank] = "partition"]
            /\ UNCHANGED <<errs, exit_code>>
    /\ UNCHANGED <<mpivars_but_pc, colls, progress, argc, dims>>

\* lines 117-121: the test of the dimensions received
CheckDims(rank) ==
    /\ pc[rank] = "check"
    /\ IF dims[rank][1] <= 0 \/ dims[rank][2] <= 0
       THEN /\ errs' = IF rank = 0 THEN errs \cup {"Invalid image dimensions"} ELSE errs
            /\ exit_code' = (rank :> 1) @@ exit_code
            /\ pc' = [pc EXCEPT ![rank] = "exit"]
       ELSE /\ pc' = [pc EXCEPT ![rank] = "partition"]
            /\ UNCHANGED <<errs, exit_code>>
    /\ UNCHANGED <<mpivars_but_pc, colls, progress, argc, dims>>

\* lines 143-149: malloc of local_with_halo returns NULL
OomLocal(rank) ==
    /\ pc[rank] = "partition"
    /\ MPI_Abort(rank, "OOM allocating local_with_halo")

\* lines 164-169: malloc of local_out, after MPI_Scatterv, returns NULL
OomOut(rank) ==
    /\ pc[rank] = "scatter"
    /\ rank # 0 => Len(colls[0]) >= 3
    /\ MPI_Abort(rank, "OOM allocating local_out")

\* lines 249-253: malloc of full_out at the root returns NULL
OomFull ==
    /\ pc[0] = "gather"
    /\ MPI_Abort(0, "OOM allocating full_out")

\* lines 259-289: the three MPI_Reduce, save_pgm at the root, cleanup,
\* MPI_Finalize, return 0; saved is the outcome of save_pgm.  The root
\* leaves a reduction when every rank has entered it.
Finish(rank, saved) ==
    /\ pc[rank] = "done"
    /\ rank # 0 => saved
    /\ rank = 0 => \A r \in Ranks : Len(colls[r]) >= 4
    /\ colls' = [colls EXCEPT ![rank] = @ \o <<"MPI_Reduce", "MPI_Reduce", "MPI_Reduce">>]
    /\ errs' = IF saved THEN errs ELSE errs \cup {"failed to save output"}
    /\ exit_code' = (rank :> 0) @@ exit_code
    /\ pc' = [pc EXCEPT ![rank] = "exit"]
    /\ UNCHANGED <<mpivars_but_pc, progress, argc, dims>>

NextErr ==
    /\ \/ NextMpi /\ UNCHANGED errvars
       \/ \E rank \in Ranks : Args(rank)
       \/ \E outcome \in {"image", "empty", "null"} : Load(outcome)
       \/ \E rank \in Ranks : Bcast(rank)
       \/ \E rank \in Ranks : CheckDims(rank)
       \/ \E rank \in Ranks : OomLocal(rank)
       \/ \E rank \in Ranks : OomOut(rank)
       \/ OomFull
       \/ \E rank \in Ranks : \E saved \in BOOLEAN : Finish(rank, saved)
    /\ UNCHANGED <<thrvars, kervars, taskvars, benchvars>>

SpecErr == InitErr /\ [][NextErr]_vars

----------------------------------------------------------------------------
(* Properties *)

AfterWait == {"boundary", "threshold", "gather", "done"}
AfterPost == {"interior", "wait"} \cup AfterWait

\* the image as a single block with clamped halo rows above and below
ClampedBlock ==
    [i \in 0 .. ((height + 2) * width - 1) |->
        IF i < width THEN full_image[i]
        ELSE IF i >= (height + 1) * width THEN full_image[i - 2 * width]
        ELSE full_image[i - width]]

\* the magnitudes one worker computes over the whole image with the same kernel
RefMag == sobel_on_local_chunk(ClampedBlock, 0, Zeros(width * height), 0, width, height)

RECURSIVE Assembled(_)
\* the blocks of ranks 0..r laid out by the row partition table
Assembled(r) ==
    IF r < 0 THEN Zeros(width * height)
    ELSE Store(Assembled(r - 1), displs[r], local_out[r], send_counts[r])

RECURSIVE SumTo(_, _)
SumTo(f, r) == IF r < 0 THEN 0 ELSE f[r] + SumTo(f, r - 1)

RowCount(r) == send_counts[r] \div width

\* C1: with 1 <= N <= H, the magnitude grid formed by the workers' blocks
\* once every worker has finished its boundary pass equals, at every pixel,
\* the magnitudes of a single worker over the whole clamped image.
C1_PartitionEquivalence ==
    (size <= height /\ \A r \in Ranks : pc[r] = "threshold")
        => Assembled(size - 1) = RefMag

\* C2: no kernel invocation reads a halo row before it is populated by the
\* self-copy or by the completion of its receive at the wait.
C2_NoEarlyHaloRead == \A r \in Ranks : unready[r] = {}

\* C3: at DONE (boundary pass finished, threshold not yet applied) every
\* output row of the worker has been written by the kernel and holds the
\* magnitudes of the corresponding real row of its local block.
C3_AllRowsWritten ==
    \A r \in Ranks :
        pc[r] = "threshold" =>
            /\ \A k \in 0 .. (local_rows[r] - 1) : kwrites[r][k] >= 1
            /\ local_out[r] = sobel_on_local_chunk(local_with_halo[r], 0, local_out[r],
                                                   0, width, local_rows[r])

\* C4: for H >= N >= 1 the row counts of the table sum to H, each is
\* floor(H/N) or ceil(H/N), any two differ by at most 1 and the larger
\* counts belong to the first H mod N workers.
C4_PartitionComplete ==
    (size <= height /\ pc[0] # "partition") =>
        /\ \A r \in Ranks : send_counts[r] = RowCount(r) * width
        /\ SumTo([r \in Ranks |-> RowCount(r)], size - 1) = height
        /\ \A r \in Ranks : RowCount(r) \in {height \div size, (height + size - 1) \div size}
        /\ \A r1, r2 \in Ranks : RowCount(r1) - RowCount(r2) <= 1
        /\ \A r \in Ranks : (RowCount(r) > height \div size) <=> (r < height % size)

\* C5: offset[0] = 0 and offset[r] = offset[r-1] + row_count[r-1]*W, the
\* ranges are contiguous in rank order and cover every global row exactly
\* once, and the count a worker computes for itself is the root's entry.
C5_OffsetsPrefixSum ==
    pc[0] # "partition" =>
        /\ displs[0] = 0
        /\ \A r \in Ranks \ {0} : displs[r] = displs[r - 1] + send_counts[r - 1]
        /\ displs[size - 1] + send_counts[size - 1] = width * height
        /\ \A y \in 0 .. (height - 1) :
              Cardinality({r \in Ranks : /\ displs[r] <= y * width
                                         /\ y * width < displs[r] + send_counts[r]}) = 1
        /\ \A r \in Ranks : pc[r] # "partition" => local_rows[r] * width = send_counts[r]

\* C6: with H < N the partitioning fails: no worker holds a zero-row block
\* and none goes on to scatter, halo exchange or compute.
C6_RejectsFewRows ==
    height < size => \A r \in Ranks : pc[r] \in {"partition", "scatter"}

BottomHalo(r) == Slice(local_with_halo[r], (local_rows[r] + 1) * width, width)
TopHalo(r) == Slice(local_with_halo[r], 0, width)
FirstRow(r) == Slice(local_with_halo[r], 1 * width, width)
LastRow(r) == Slice(local_with_halo[r], local_rows[r] * width, width)

\* C7: after the wait, for adjacent workers r and r+1 with at least one row
\* each, r's bottom halo is r+1's first real row (the global row at r+1's
\* offset) and r+1's top halo is r's last real row.
C7_HaloMatchesNeighbor ==
    \A r \in Ranks :
        (r + 1 \in Ranks /\ local_rows[r] >= 1 /\ local_rows[r + 1] >= 1) =>
            /\ pc[r] \in AfterWait =>
                  /\ BottomHalo(r) = FirstRow(r + 1)
                  /\ BottomHalo(r) = Slice(full_image, displs[r + 1], width)
            /\ pc[r + 1] \in AfterWait =>
                  /\ TopHalo(r + 1) = LastRow(r)
                  /\ TopHalo(r + 1) = Slice(full_image, displs[r + 1] - width, width)

Transfers == recvq \cup sendq \cup net

\* C8: at the image edges the halo is a self-copy in place before the
\* interior pass: worker 0's top halo is its first real row, worker N-1's
\* bottom halo is its last real row, and no transfer is posted towards the
\* absent neighbor (none at all when N = 1).
C8_EdgeClamp ==
    /\ \A q \in Transfers : q.src \in Ranks /\ q.dst \in Ranks
    /\ \A r \in Ranks :
          (pc[r] \in AfterPost /\ local_rows[r] >= 1) =>
              /\ r = 0 => /\ TopHalo(r) = FirstRow(r)
                          /\ TopHalo(r) = Slice(full_image, 0, width)
              /\ r = size - 1 => /\ BottomHalo(r) = LastRow(r)
                                 /\ BottomHalo(r) = Slice(full_image, (height - 1) * width, width)
              /\ reqcnt[r] = 2 * Cardinality({d \in {r - 1, r + 1} : d \in Ranks})

IsFlat == \A i \in DOMAIN full_image : full_image[i] = full_image[0]

\* C9: for a flat image, N <= H and a threshold T >= 1, the magnitude of
\* every pixel is 0 and the gathered output is all zeros.
C9_FlatIsZero ==
    (IsFlat /\ size <= height /\ threshold >= 1) =>
        /\ \A r \in Ranks : pc[r] \in {"threshold", "gather", "done"} =>
              \A i \in DOMAIN local_out[r] : local_out[r][i] = 0
        /\ pc[0] = "done" => \A i \in DOMAIN full_out : full_out[i] = 0

\* C10: for every magnitude m and threshold T in 0..255 each of the three
\* thresholders outputs 255 when m >= T and 0 otherwise.
C10_ThresholdContract ==
    \A impl \in DOMAIN tout :
        /\ tout[impl][0] \in {0, 255}
        /\ tout[impl][0] = 255 <=> tm >= tt

\* C11: applying the thresholder a second time with the same threshold
\* gives the buffer the first application gave, for every magnitude and
\* every threshold in 0..255.
C11_ThresholdIdempotent ==
    \A impl \in DOMAIN tagain : tagain[impl] = tout[impl]

\* the pixel of the neighborhood at row y and column x, the column clamped
KerAt(y, x) ==
    kimg[y * KerWidth + (IF x < 0 THEN 0 ELSE IF x > KerWidth - 1 THEN KerWidth - 1 ELSE x)]

KerGx ==
    KerAt(0, kx + 1) - KerAt(0, kx - 1) + 2 * KerAt(1, kx + 1) - 2 * KerAt(1, kx - 1)
        + KerAt(2, kx + 1) - KerAt(2, kx - 1)

KerGy ==
    KerAt(2, kx - 1) + 2 * KerAt(2, kx) + KerAt(2, kx + 1)
        - KerAt(0, kx - 1) - 2 * KerAt(0, kx) - KerAt(0, kx + 1)

\* v is sqrt(n) rounded to the nearest integer and then clamped to 255
RoundThenClamp(v, n) ==
    \/ v = 255 /\ 4 * n >= 509 * 509
    \/ /\ v \in 0 .. 254
       /\ 4 * n < (2 * v + 1) * (2 * v + 1)
       /\ v = 0 \/ (2 * v - 1) * (2 * v - 1) <= 4 * n

\* C12: each of the three kernels maps a neighborhood to sqrt(Gx^2 + Gy^2)
\* rounded to the nearest integer and then clamped to 255, Gx and Gy by the
\* Sobel kernels with the column clamped; so the three agree.
C12_KernelsRoundThenClamp ==
    \A impl \in DOMAIN kout :
        RoundThenClamp(kout[impl], KerGx * KerGx + KerGy * KerGy)

\* C13: when saving the output fails, the failure is reported and the root
\* process exits with a non-zero code.
C13_SaveFailureExitsNonZero ==
    ("failed to save output" \in errs /\ 0 \in DOMAIN exit_code) => exit_code[0] # 0

\* C14: when the root fails to decode the image, the whole group is aborted
\* before any partitioning: every rank was still before the decode or in the
\* broadcast, no rank has a partition, a block, a posted transfer or a kernel
\* write, and no rank remains in the broadcast.
C14_DecodeFailureAbortsAll ==
    "failed to load image" \in errs =>
        /\ \A r \in Ranks :
              /\ pc[r] = "aborted"
              /\ progress[r] \in {"args", "load", "bcast"}
              /\ local_rows[r] = 0
              /\ local_with_halo[r] = Empty
              /\ local_out[r] = Empty
              /\ reqcnt[r] = 0
              /\ kwrites[r] = Empty
              /\ bcalls[r] = <<>>
        /\ send_counts = Empty /\ displs = Empty
        /\ Transfers = {}

OomMessages ==
    {"OOM allocating local_with_halo", "OOM allocating local_out", "OOM allocating full_out"}

\* C15: when an allocation fails on one rank, every rank of the group is
\* terminated: none remains in a halo wait or in a collective, and no transfer
\* stays pending.
C15_AllocFailureTerminatesGroup ==
    (errs \cap OomMessages # {}) =>
        /\ \A r \in Ranks : pc[r] = "aborted" /\ exit_code[r] = 1
        /\ Transfers = {}

BeforeWaitReturns == {"partition", "scatter", "post", "post2", "interior", "wait"}

Neighbors(r) == {above(r), below(r)} \ {MPI_PROC_NULL}

\* C16: a rank goes through posting, interior pass, wait and boundary pass in
\* this order: all its transfers are posted before the interior pass, the
\* kernel does not run before the posts, and no boundary row (first or last
\* real row) has been computed while the wait has not returned.
C16_StateOrder ==
    \A r \in Ranks :
        /\ pc[r] \in AfterPost => reqcnt[r] = 2 * Cardinality(Neighbors(r))
        /\ pc[r] \in {"partition", "scatter", "post", "post2", "interior"} =>
              /\ ireads[r] = {}
              /\ \A k \in DOMAIN kwrites[r] : kwrites[r][k] = 0
        /\ (pc[r] \in BeforeWaitReturns /\ DOMAIN kwrites[r] # {}) =>
              /\ kwrites[r][0] = 0
              /\ kwrites[r][local_rows[r] - 1] = 0

\* C17: with local_rows >= 3 the interior pass writes exactly the output
\* rows 1 .. local_rows - 2 (0-indexed; real rows 2 .. local_rows - 1) and
\* reads only real rows, rows 1 .. local_rows of local_with_halo.
C17_InteriorRows ==
    \A r \in Ranks :
        (pc[r] = "wait" /\ local_rows[r] >= 3) =>
            /\ {k \in DOMAIN kwrites[r] : kwrites[r][k] >= 1} = 1 .. (local_rows[r] - 2)
            /\ ireads[r] \subseteq 1 .. local_rows[r]

\* C18: when the thresholder runs, the kernel has written every row of
\* local_out exactly once.
C18_EachRowOnce ==
    \A r \in Ranks :
        pc[r] \in {"threshold", "gather", "done"} =>
            \A k \in DOMAIN kwrites[r] : kwrites[r][k] = 1

\* C19: with local_rows < 3 the interior pass is a no-op: at the wait no
\* output row has been written, local_out is as allocated, and no row of
\* local_with_halo has been read.
C19_InteriorNoOp ==
    \A r \in Ranks :
        (pc[r] = "wait" /\ local_rows[r] < 3) =>
            /\ ireads[r] = {}
            /\ \A k \in DOMAIN kwrites[r] : kwrites[r][k] = 0
            /\ local_out[r] = Uninit(local_rows[r] * width)

\* the magnitudes of one output row computed from rows k .. k + 2 of the block
RowFrom(r, k) ==
    sobel_on_local_chunk(local_with_halo[r], k * width, Zeros(width), 0, width, 1)

\* C20: the boundary pass of a rank with one real row computes that row once,
\* from both halo rows; with two or more real rows it computes the first row
\* once, from the top halo, and the last row once, from the bottom halo.
C20_BoundaryPass ==
    \A r \in Ranks :
        pc[r] \in {"threshold", "gather", "done"} =>
            LET L == local_rows[r]
                calls == bcalls[r]
            IN /\ L = 1 =>
                     /\ calls = <<0>>
                     /\ {0, L + 1} \subseteq CallReads(calls)
                     /\ pc[r] = "threshold" => local_out[r] = RowFrom(r, 0)
               /\ L >= 2 =>
                     /\ Len(calls) = 2
                     /\ calls[1] = 0 /\ 0 \in ChunkReads(calls[1], 1)
                     /\ calls[2] = L - 1 /\ (L + 1) \in ChunkReads(calls[2], 1)
                     /\ pc[r] = "threshold" =>
                           /\ Slice(local_out[r], 0, width) = RowFrom(r, 0)
                           /\ Slice(local_out[r], (L - 1) * width, width) = RowFrom(r, L - 1)

\* C21: a rank posts one receive and one send per present neighbor: 0
\* requests with one rank, 2 for the first and the last rank of several, 4
\* for the others, never more than 4; MPI_Waitall is called once with that
\* count and leaves none of the requests pending, and it is not called when
\* nothing was posted.
C21_RequestCount ==
    \A r \in Ranks :
        /\ pc[r] \in AfterPost =>
              /\ reqcnt[r] = 2 * Cardinality(Neighbors(r))
              /\ reqcnt[r] <= 4
              /\ size = 1 => reqcnt[r] = 0
              /\ (size >= 2 /\ r \in {0, size - 1}) => reqcnt[r] = 2
              /\ (size >= 2 /\ r \notin {0, size - 1}) => reqcnt[r] = 4
        /\ pc[r] \in AfterWait =>
              /\ waited[r] = (IF reqcnt[r] > 0 THEN <<reqcnt[r]>> ELSE <<>>)
              /\ ~Pending(r)
        /\ pc[r] \notin AfterWait => waited[r] = <<>>

\* C22: with every rank running and a reliable transport the halo exchange
\* does not deadlock: every rank's wait returns and every rank completes the
\* gather, whether sends are buffered or complete only with their receive.
C22_RoundTerminates ==
    <>(\A r \in Ranks : pc[r] = "done" /\ ~Pending(r))

\* the chunks created so far
Chunks == tpool \cup tdone

\* C23: the chunks of the task-based thresholder are [start, min(start +
\* chunk_size, n)), pairwise disjoint; a task writes only its own chunk; and
\* the function returns after all tasks, with every index in exactly one
\* chunk and the output of the sequential thresholder, in every order of
\* the tasks.
C23_ThresholdChunks ==
    tkind = "threshold" =>
        LET n == tw * th
        IN /\ \A t \in Chunks :
                 /\ 0 <= t.start /\ t.start < t.end /\ t.end <= n
                 /\ t.end = Min(t.start + chunk_size, n)
           /\ \A t, u \in Chunks : t # u => (t.end <= u.start \/ u.end <= t.start)
           /\ tdst = [i \in 0 .. (n - 1) |->
                        IF \E t \in tdone : t.start <= i /\ i < t.end
                        THEN (IF TaskInput[i] >= tthr THEN 255 ELSE 0)
                        ELSE tjunk]
           /\ tpc = "returned" =>
                 /\ tpool = {}
                 /\ \A i \in 0 .. (n - 1) :
                       Cardinality({t \in tdone : t.start <= i /\ i < t.end}) = 1
                 /\ tdst = threshold_image(TaskInput, [i \in 0 .. (n - 1) |-> tjunk], n, tthr)

\* whether tile t contains pixel (x, y)
InTile(t, x, y) ==
    /\ t.start_y <= y /\ y < t.end_y
    /\ t.start_x <= x /\ x < t.end_x

\* C24: the 64x64 tiles of the task-based Sobel pass, clipped at the right
\* and bottom edges, partition the image: a task writes only its own tile,
\* and sobel_magnitude returns after all tasks, with every pixel in exactly
\* one tile and the magnitudes of the sequential sobel_magnitude, in every
\* order of the tasks.
C24_SobelTiles ==
    tkind = "sobel" =>
        /\ \A t \in Chunks :
              /\ 0 <= t.start_y /\ t.start_y < t.end_y /\ t.end_y <= th
              /\ 0 <= t.start_x /\ t.start_x < t.end_x /\ t.end_x <= tw
              /\ t.end_y - t.start_y <= TILE_SIZE /\ t.end_x - t.start_x <= TILE_SIZE
        /\ \A i \in 0 .. (tw * th - 1) :
              (~ \E t \in tdone : InTile(t, i % tw, i \div tw)) => tdst[i] = tjunk
        /\ tpc = "returned" =>
              /\ tpool = {}
              /\ \A i \in 0 .. (tw * th - 1) :
                    Cardinality({t \in tdone : InTile(t, i % tw, i \div tw)}) = 1
              /\ tdst = [i \in 0 .. (tw * th - 1) |->
                           sobel_magnitude(TaskInput, tw, th, i % tw, i \div tw)]

\* the collective operations of a complete run, in program order
AllColls ==
    <<"MPI_Bcast", "MPI_Bcast", "MPI_Scatterv", "MPI_Gatherv",
      "MPI_Reduce", "MPI_Reduce", "MPI_Reduce">>

IsPrefix(s, t) == Len(s) <= Len(t) /\ s = SubSeq(t, 1, Len(s))

InvalidDims(d) == d[1] <= 0 \/ d[2] <= 0

AtCollective == {"bcast", "scatter", "gather", "done"}

\* C25: every rank executes the same collectives in the same order (two
\* broadcasts, scatter, gather, three reductions) or all ranks leave together
\* before them: the collectives a rank has executed are always a prefix of
\* that sequence and a rank that returns 0 has executed all of it; with
\* missing arguments every rank exits with failure without any collective;
\* with invalid dimensions every rank receives them, exits with failure after
\* the two broadcasts and has no partition and no block; and no rank is at a
\* collective that a rank which has exited did not execute.
C25_SameCollectives ==
    /\ \A r \in Ranks :
          /\ IsPrefix(colls[r], AllColls)
          /\ (r \in DOMAIN exit_code /\ exit_code[r] = 0) => colls[r] = AllColls
    /\ argc < 3 =>
          \A r \in Ranks :
              /\ pc[r] \in {"args", "exit"}
              /\ colls[r] = <<>>
              /\ pc[r] = "exit" => exit_code[r] = 1
    /\ (argc >= 3 /\ Len(colls[0]) >= 2 /\ InvalidDims(dims[0])) =>
          /\ \A r \in Ranks :
                /\ pc[r] \in {"args", "bcast", "check", "exit"}
                /\ Len(colls[r]) <= 2
                /\ Len(colls[r]) = 2 => dims[r] = dims[0]
                /\ pc[r] = "exit" => exit_code[r] = 1 /\ Len(colls[r]) = 2
                /\ local_rows[r] = 0
                /\ local_with_halo[r] = Empty
                /\ local_out[r] = Empty
          /\ send_counts = Empty /\ displs = Empty
          /\ Transfers = {}
    /\ \A q \in Ranks : \A r \in Ranks :
          (pc[q] = "exit" /\ pc[r] \in AtCollective) => Len(colls[q]) > Len(colls[r])

\* the bytes of the row buffer at offset off
RowBytes(off) == off .. (off + width - 1)

HaloOffsets(r) == {0 * width, (local_rows[r] + 1) * width}

RealBytes(r) == (1 * width) .. ((local_rows[r] + 1) * width - 1)

\* a receive of rank r that the step completes
Completed(r) == {q \in recvq \ recvq' : q.dst = r}

\* C26: for a rank with at least one real row, from the posting to the return
\* of the wait, a posted receive is into halo row 0 or local_rows + 1 and its
\* buffer shares no byte with the buffers of the rank's sends (rows 1 and
\* local_rows); no step writes a real row of the rank, a row being sent
\* included; and a step that is not the rank's own changes its local output
\* never and its local block only inside the halo row of a receive of the
\* rank that the step completes.
C26_BuffersDisjoint ==
    /\ [](\A r \in Ranks :
            (local_rows[r] >= 1 /\ pc[r] \in {"post2", "interior", "wait"}) =>
                \A q \in recvq :
                    q.dst = r =>
                        /\ q.off \in HaloOffsets(r)
                        /\ \A snd \in SendUp(r) \cup SendDown(r) :
                              RowBytes(q.off) \cap RowBytes(snd.off) = {})
    /\ [][\A r \in {r \in Ranks : local_with_halo'[r] # local_with_halo[r]
                                    \/ local_out'[r] # local_out[r]} :
            local_rows[r] >= 1 =>
                /\ pc[r] \in {"interior", "wait"} =>
                      \A i \in RealBytes(r) : local_with_halo'[r][i] = local_with_halo[r][i]
                /\ pc'[r] = pc[r] =>
                      /\ local_out'[r] = local_out[r]
                      /\ \E q \in Completed(r) :
                            /\ q.off \in HaloOffsets(r)
                            /\ \A i \in DOMAIN local_with_halo[r] \ RowBytes(q.off) :
                                  local_with_halo'[r][i] = local_with_halo[r][i]]_vars

\* the ping-pong and one-way sizes of the run
PingPongSizes == {e \in bmin .. bmax : size_bytes(e) <= PingPongMax}

OneWaySizes == {e \in bmin .. bmax : size_bytes(e) > PingPongMax}

BenchTerminated == \A r \in BRanks : bpc[r].at = "exit"

\* C27: with two ranks, every message in flight to a rank that has entered
\* the loop has the tag and the length of the receives of the size the rank
\* is at, so that a receive returns with the oldest of them; no
\* more messages are in flight than the sender has sent and the receiver not
\* received; both ranks terminate, even when a send returns only once
\* received, and they then returned 0, passed one barrier per size, left no
\* message in flight, and rank 1 echoed each ping-pong message while rank 0
\* sent the ping-pong and the one-way messages.  With any other group size no
\* message is ever sent and every rank terminates returning 1.
C27_BenchmarkMatched ==
    /\ [](bsize = 2 =>
            /\ \A r \in BRanks :
                  /\ \A j \in DOMAIN bchan[r] :
                        /\ bpc[r].at \in {"start", "for", "call", "sending"}
                        /\ bpc[r].at # "start" =>
                              /\ bchan[r][j].tag = Tag(bpc[r].e)
                              /\ bchan[r][j].count = size_bytes(bpc[r].e)
                  /\ Len(bchan[r]) = bcount[Peer(r)].sent - bcount[r].recvd
                  /\ bpc[r].at = "sending" => Len(bchan[Peer(r)]) <= 1
            /\ BenchTerminated =>
                  /\ \A r \in BRanks :
                        /\ bexit[r] = 0
                        /\ bchan[r] = <<>>
                        /\ bcount[r].barriers = Cardinality(bmin .. bmax)
                  /\ bcount[1].sent = Cardinality(PingPongSizes) * (SKIP_SMALL + ITER_SMALL)
                  /\ bcount[0].sent = bcount[1].sent
                        + Cardinality(OneWaySizes) * (SKIP_LARGE + ITER_LARGE)
                  /\ bcount[0].recvd = bcount[1].sent
                  /\ bcount[1].recvd = bcount[0].sent)
    /\ [](bsize # 2 =>
            \A r \in BRanks :
                /\ bchan[r] = <<>> /\ bcount[r].sent = 0 /\ bcount[r].barriers = 0
                /\ bpc[r].at \in {"start", "exit"}
                /\ bpc[r].at = "exit" => bexit[r] = 1)
    /\ <>BenchTerminated

----------------------------------------------------------------------------
(* Reachable states in which the cases above occur *)

\* five rows over three workers: the table holds 2, 2 and 1 rows
C4_Witness ==
    /\ size = 3 /\ height = 5 /\ pc[0] = "scatter"
    /\ RowCount(0) = 2 /\ RowCount(1) = 2 /\ RowCount(2) = 1

\* five rows of width 2 over three workers: offsets 0, 4 and 8, and the last
\* worker has computed its own single row
C5_Witness ==
    /\ size = 3 /\ height = 5 /\ width = 2
    /\ \A r \in Ranks : pc[r] = "post"
    /\ displs[1] = 4 /\ displs[2] = 8
    /\ local_rows[2] = 1 /\ send_counts[2] = 2

\* H = 5, N = 2 on the ramp image: both workers are past the wait, worker
\* 0's bottom halo is global row 3 and worker 1's top halo is global row 2
C7_Witness ==
    /\ size = 2 /\ height = 5 /\ ~IsFlat
    /\ pc[0] \in AfterWait /\ pc[1] \in AfterWait
    /\ BottomHalo(0) = Slice(full_image, 3 * width, width)
    /\ TopHalo(1) = Slice(full_image, 2 * width, width)
    /\ FirstRow(1) # LastRow(1)

\* two workers about to start the interior pass, each with one clamped halo
\* and two posted requests
C8_Witness ==
    /\ size = 2 /\ height >= 4 /\ ~IsFlat
    /\ pc[0] = "interior" /\ pc[1] = "interior"
    /\ TopHalo(0) = FirstRow(0) /\ BottomHalo(1) = LastRow(1)
    /\ TopHalo(0) # Zeros(width)
    /\ reqcnt[0] = 2 /\ reqcnt[1] = 2

\* a magnitude equal to the threshold is an edge in the task thresholder
C10_Witness ==
    /\ DOMAIN tout = {"task"}
    /\ tm = tt /\ tt = 100
    /\ tout["task"][0] = 255

\* the sequential thresholder applied twice to a magnitude above the
\* threshold: 255 both times
C11_Witness ==
    /\ DOMAIN tagain = {"sequential"}
    /\ tm = 200 /\ tt = 100
    /\ tout["sequential"][0] = 255 /\ tagain["sequential"][0] = 255

\* the decode failed while another rank was waiting in the broadcast
C14_Witness ==
    /\ "failed to load image" \in errs
    /\ size >= 2
    /\ progress[0] = "load"
    /\ progress[1] = "bcast"
    /\ pc[1] = "aborted"

\* the root's gather buffer could not be allocated while another rank was in
\* its halo wait with a receive pending
C15_Witness ==
    /\ "OOM allocating full_out" \in errs
    /\ \E r \in Ranks : progress[r] = "wait" /\ reqcnt[r] > 0
    /\ \A r \in Ranks : pc[r] = "aborted"

\* a rank with two real rows is at its wait
C19_Witness ==
    \E r \in Ranks :
        /\ pc[r] = "wait" /\ local_rows[r] = 2
        /\ local_out[r] = Uninit(2 * width)

\* a rank with one real row and a rank with several have run the boundary pass
C20_Witness ==
    \E r, q \in Ranks :
        /\ pc[r] = "threshold" /\ local_rows[r] = 1 /\ bcalls[r] = <<0>>
        /\ pc[q] = "threshold" /\ local_rows[q] >= 2 /\ Len(bcalls[q]) = 2

\* a rank with two neighbors has waited for its four requests while the first
\* rank has waited for its two
C21_Witness ==
    /\ size >= 3
    /\ pc[1] = "boundary" /\ reqcnt[1] = 4 /\ waited[1] = <<4>>
    /\ pc[0] = "boundary" /\ reqcnt[0] = 2 /\ waited[0] = <<2>>

\* a rank with two neighbors is at its wait with unbuffered sends, one of its
\* sends still unmatched and one of its receives still pending
C22_Witness ==
    /\ rendezvous
    /\ size >= 3 /\ height >= size
    /\ pc[1] = "wait"
    /\ \E m \in net : m.src = 1
    /\ \E q \in recvq : q.dst = 1

\* three chunks, the last of one element, have run and the thresholder has
\* returned
C23_Witness ==
    /\ tkind = "threshold" /\ tpc = "returned"
    /\ tw * th = 2 * chunk_size + 1
    /\ Cardinality(tdone) = 3
    /\ [start |-> 2 * chunk_size, end |-> 2 * chunk_size + 1] \in tdone

\* four tiles, three of them clipped, and sobel_magnitude has returned
C24_Witness ==
    /\ tkind = "sobel" /\ tpc = "returned"
    /\ tw = TILE_SIZE + 1 /\ th = TILE_SIZE + 1
    /\ Cardinality(tdone) = 4
    /\ [start_y |-> TILE_SIZE, end_y |-> TILE_SIZE + 1,
        start_x |-> TILE_SIZE, end_x |-> TILE_SIZE + 1] \in tdone

\* the root broadcast the dimensions of an image without pixels, and each of
\* two or more ranks left with failure after the two broadcasts
C25_Witness ==
    /\ size >= 2 /\ argc >= 3
    /\ InvalidDims(dims[0])
    /\ "Invalid image dimensions" \in errs
    /\ \A r \in Ranks :
          /\ pc[r] = "exit" /\ exit_code[r] = 1
          /\ colls[r] = <<"MPI_Bcast", "MPI_Bcast">>

\* a rank between two neighbors is in its interior pass with its own sends in
\* flight: the receive of its top halo has completed and changed the halo,
\* the receive of its bottom halo is still posted
C26_Witness ==
    /\ size = 3 /\ local_rows[1] >= 1 /\ pc[1] = "interior"
    /\ \E m \in net : m.src = 1
    /\ ~ \E q \in recvq : q.dst = 1 /\ q.off = 0 * width
    /\ \E q \in recvq : q.dst = 1 /\ q.off = (local_rows[1] + 1) * width
    /\ Slice(local_with_halo[1], 0 * width, width)
           = Slice(local_with_halo[0], local_rows[0] * width, width)
    /\ Slice(local_with_halo[1], 0 * width, width) # [i \in 0 .. (width - 1) |-> 0]

\* two ranks have terminated after a ping-pong size and a one-way size, each
\* send having returned only when received
C27_Witness ==
    /\ bsize = 2 /\ bsync /\ bmin = 10 /\ bmax = 11
    /\ BenchTerminated
    /\ bcount[0].sent = SKIP_SMALL + ITER_SMALL + SKIP_LARGE + ITER_LARGE
    /\ bcount[1].recvd = bcount[0].sent
    /\ bcount[0].barriers = 2

====
